---- MODULE Spec2Model ----
(***************************************************************************)
(* Bookly: the booking lifecycle API (create / approve / decline) and the  *)
(* calendar builder of backend/app/routers/bookings.py, over the two       *)
(* tables of backend/app/models.py.                                        *)
(*                                                                         *)
(* A date is its proleptic Gregorian ordinal (datetime.date.toordinal),    *)
(* so that date comparison is <=, timedelta(days=1) is +1, and year,       *)
(* month, day and weekday are computed from the ordinal as the date type   *)
(* computes them.  A string the code only stores and compares is a TLA+    *)
(* string; an e-mail address, which the code lower-cases, is a sequence of *)
(* ASCII codes; Python's None is the string "None" for the optional        *)
(* string columns and the empty sequence for the notes text (the code      *)
(* tests notes for truthiness only, and no empty text is submitted).       *)
(***************************************************************************)
EXTENDS Integers, Sequences, FiniteSets, TLC

VARIABLES customers, bookings, response, sessions

vars == <<customers, bookings, response, sessions>>

None == "None"

----------------------------------------------------------------------------
(* Bounds of the model *)

MaxBookings == 2
NumDays == 2
NumYears == 9
MaxSessions == 2

----------------------------------------------------------------------------
(* datetime.date arithmetic *)

IsLeap(y) == (y % 4 = 0 /\ y % 100 # 0) \/ y % 400 = 0

DaysInMonth(y, m) ==
    IF m \in {1, 3, 5, 7, 8, 10, 12} THEN 31
    ELSE IF m \in {4, 6, 9, 11} THEN 30
    ELSE IF IsLeap(y) THEN 29 ELSE 28

DaysBeforeYear(y) ==
    LET p == y - 1 IN p * 365 + (p \div 4) - (p \div 100) + (p \div 400)

\* The days of the year before the first day of month m
DaysBeforeMonth(y, m) ==
    <<0, 31, 59, 90, 120, 151, 181, 212, 243, 273, 304, 334>>[m]
        + (IF m > 2 /\ IsLeap(y) THEN 1 ELSE 0)

\* date(y, m, d).toordinal()
date(y, m, d) == DaysBeforeYear(y) + DaysBeforeMonth(y, m) + d

\* date.fromordinal(n) as the record of its year, month and day
ymd(n) ==
    LET n0   == n - 1
        n400 == n0 \div 146097
        r400 == n0 % 146097
        n100 == r400 \div 36524
        r100 == r400 % 36524
        n4   == r100 \div 1461
        r4   == r100 % 1461
        n1   == r4 \div 365
        r1   == r4 % 365
        year == n400 * 400 + 1 + n100 * 100 + n4 * 4 + n1
    IN  IF n1 = 4 \/ n100 = 4
        THEN [year |-> year - 1, month |-> 12, day |-> 31]
        ELSE LET guess == (r1 + 50) \div 32
                 month == IF DaysBeforeMonth(year, guess) > r1
                          THEN guess - 1 ELSE guess
             IN  [year |-> year, month |-> month,
                  day |-> r1 - DaysBeforeMonth(year, month) + 1]

\* date.weekday(): Monday is 0
weekday(n) == (n + 6) % 7

\* monthrange(year, month)[1]
monthrange(y, m) == DaysInMonth(y, m)

\* _daterange(start, end): the days start, start + 1, ..., end in order
daterange(start, end) == [i \in 1..(IF end >= start THEN end - start + 1 ELSE 0) |-> start + i - 1]

----------------------------------------------------------------------------
(* Program constants *)

DEFAULT_RESOURCE_ID == "alder-lake-house"
CAPACITY_PER_DAY == 1

BookingStatus == {"pending", "approved", "declined", "cancelled"}


----------------------------------------------------------------------------
(* Rows and request payloads *)

\* The address as submitted, not lower-cased
lower_identity(s) == s

\* str.lower() on a sequence of ASCII codes
lower(s) == [i \in 1..Len(s) |-> IF s[i] >= 65 /\ s[i] <= 90 THEN s[i] + 32 ELSE s[i]]

\* models.Customer(email=..., full_name=...): the id is the store's next key
Customer(id, email, full_name) == [id |-> id, email |-> email, full_name |-> full_name]

\* models.Booking(...) as create_booking builds it: no approver, no approval time
Booking(id, customer_id, payload) ==
    [id |-> id,
     customer_id |-> customer_id,
     resource_id |-> payload.resource_id,
     status |-> "pending",
     start_at |-> payload.start_at,
     end_at |-> payload.end_at,
     requested_by |-> payload.requested_by,
     approved_by |-> None,
     notes |-> payload.notes,
     amount |-> payload.amount,
     approved_at |-> None]

\* CheckConstraint("start_at <= end_at"): the store refuses, at the commit, a
\* booking that breaks it
ck_booking_valid_range(booking) == booking.start_at <= booking.end_at

\* raise HTTPException(status_code=..., detail=...)
HTTPException(op, request, status_code, detail) ==
    [op |-> op, request |-> request, status_code |-> status_code,
     body |-> [detail |-> detail]]

\* The row of customers with the given id (Booking.customer, joined)
customer_of(cs, id) == CHOOSE c \in {cs[i] : i \in DOMAIN cs} : c.id = id

\* _booking_read(booking): the booking with its customer
booking_read(cs, booking) == [booking |-> booking, customer |-> customer_of(cs, booking.customer_id)]

\* A session that commits what it wrote as it closes
rollback_autocommit(committed, session) == session

\* get_db: the session is closed without a commit when the handler raises,
\* which discards what the session wrote
rollback(committed, session) == committed

----------------------------------------------------------------------------
(* _upsert_customer and _ensure_no_conflict *)

\* The session's customers after the upsert, and the customer it returns
upsert_customer(cs, payload) ==
    LET normalized_email == lower(payload.email)
        found == {i \in DOMAIN cs : cs[i].email = normalized_email}
    IN  IF found = {}
        THEN LET customer == Customer(Len(cs) + 1, normalized_email, payload.full_name)
             IN  [customers |-> Append(cs, customer), customer |-> customer]
        ELSE LET i == CHOOSE j \in found : TRUE
             IN  [customers |-> [cs EXCEPT ![i].full_name = payload.full_name],
                  customer |-> [cs[i] EXCEPT !.full_name = payload.full_name]]

\* The overlap test with strict comparisons: ranges that share only an end
\* day pass it
ensure_no_conflict_strict(bs, resource_id, start_at, end_at, exclude) ==
    ~ \E i \in DOMAIN bs :
        /\ bs[i].resource_id = resource_id
        /\ bs[i].status = "approved"
        /\ bs[i].end_at > start_at
        /\ bs[i].start_at < end_at
        /\ bs[i].id \notin exclude

\* The check without its filter on the status: a pending booking conflicts
ensure_no_conflict_any_status(bs, resource_id, start_at, end_at, exclude) ==
    ~ \E i \in DOMAIN bs :
        /\ bs[i].resource_id = resource_id
        /\ bs[i].end_at >= start_at
        /\ bs[i].start_at <= end_at
        /\ bs[i].id \notin exclude

\* The overlap test written as containment: only an approved booking that
\* holds the whole range conflicts
ensure_no_conflict_containment(bs, resource_id, start_at, end_at, exclude) ==
    ~ \E i \in DOMAIN bs :
        /\ bs[i].resource_id = resource_id
        /\ bs[i].status = "approved"
        /\ bs[i].start_at <= start_at
        /\ bs[i].end_at >= end_at
        /\ bs[i].id \notin exclude

\* TRUE iff _ensure_no_conflict returns without raising; exclude is the set
\* holding exclude_booking_id, empty for None
ensure_no_conflict(bs, resource_id, start_at, end_at, exclude) ==
    ~ \E i \in DOMAIN bs :
        /\ bs[i].resource_id = resource_id
        /\ bs[i].status = "approved"
        /\ bs[i].end_at >= start_at
        /\ bs[i].start_at <= end_at
        /\ bs[i].id \notin exclude

----------------------------------------------------------------------------
(* The handlers: the store and the response each leaves behind *)

\* create_booking without its check of the order of the dates
create_booking_unvalidated(cs, bs, payload) ==
    LET up == upsert_customer(cs, payload.customer)
    IN  IF ~ ensure_no_conflict(bs, payload.resource_id, payload.start_at,
                                payload.end_at, {})
        THEN [customers |-> rollback(cs, up.customers), bookings |-> bs,
              response |-> HTTPException("create", payload, 409,
                                         "Booking overlaps an approved reservation")]
        ELSE LET booking == Booking(Len(bs) + 1, up.customer.id, payload)
             IN  IF ~ ck_booking_valid_range(booking)
                 THEN [customers |-> rollback(cs, up.customers), bookings |-> bs,
                       response |-> HTTPException("create", payload, 500,
                                                  "Internal Server Error")]
                 ELSE [customers |-> up.customers,
                       bookings |-> Append(bs, booking),
                       response |-> [op |-> "create", request |-> payload,
                                     status_code |-> 201,
                                     body |-> booking_read(up.customers, booking)]]

create_booking(cs, bs, payload) ==
    IF payload.start_at > payload.end_at
    THEN [customers |-> cs, bookings |-> bs,
          response |-> HTTPException("create", payload, 422,
                                     "End date must be on or after start date")]
    ELSE LET up == upsert_customer(cs, payload.customer)
         IN  IF ~ ensure_no_conflict(bs, payload.resource_id, payload.start_at,
                                     payload.end_at, {})
             THEN [customers |-> rollback(cs, up.customers), bookings |-> bs,
                   response |-> HTTPException("create", payload, 409,
                                              "Booking overlaps an approved reservation")]
             ELSE LET booking == Booking(Len(bs) + 1, up.customer.id, payload)
                  IN  IF ~ ck_booking_valid_range(booking)
                      THEN [customers |-> rollback(cs, up.customers), bookings |-> bs,
                            response |-> HTTPException("create", payload, 500,
                                                       "Internal Server Error")]
                      ELSE [customers |-> up.customers,
                            bookings |-> Append(bs, booking),
                            response |-> [op |-> "create", request |-> payload,
                                          status_code |-> 201,
                                          body |-> booking_read(up.customers, booking)]]

\* booking.notes after a decision carrying payload.note
decision_notes(notes, note) ==
    IF note # <<>>
    THEN IF notes # <<>> THEN notes \o <<"\nDecision: ">> \o note ELSE note
    ELSE notes

\* A decline that writes the status cancelled
decided_cancelled(booking, status, payload, now) ==
    [booking EXCEPT !.status = IF status = "declined" THEN "cancelled" ELSE status,
                    !.approved_by = payload.actor,
                    !.approved_at = now,
                    !.notes = decision_notes(booking.notes, payload.note)]

\* The booking as approve_booking / decline_booking rewrite it
decided(booking, status, payload, now) ==
    [booking EXCEPT !.status = status,
                    !.approved_by = payload.actor,
                    !.approved_at = now,
                    !.notes = decision_notes(booking.notes, payload.note)]

approve_booking(cs, bs, booking_id, payload, now) ==
    LET request == [booking_id |-> booking_id, payload |-> payload] IN
    IF booking_id \notin {bs[i].id : i \in DOMAIN bs}
    THEN [customers |-> cs, bookings |-> bs,
          response |-> HTTPException("approve", request, 404, "Booking not found")]
    ELSE LET i == CHOOSE j \in DOMAIN bs : bs[j].id = booking_id
             booking == bs[i]
         IN  IF booking.status # "pending"
             THEN [customers |-> cs, bookings |-> bs,
                   response |-> HTTPException("approve", request, 409,
                                              "Only pending bookings can be approved")]
             ELSE IF ~ ensure_no_conflict(bs, booking.resource_id, booking.start_at,
                                          booking.end_at, {booking.id})
             THEN [customers |-> cs, bookings |-> bs,
                   response |-> HTTPException("approve", request, 409,
                                              "Booking overlaps an approved reservation")]
             ELSE LET after == decided(booking, "approved", payload, now)
                  IN  [customers |-> cs,
                       bookings |-> [bs EXCEPT ![i] = after],
                       response |-> [op |-> "approve", request |-> request,
                                     status_code |-> 200,
                                     body |-> booking_read(cs, after)]]

\* decline_booking without its check that the booking is pending
decline_booking_any_status(cs, bs, booking_id, payload, now) ==
    LET request == [booking_id |-> booking_id, payload |-> payload] IN
    IF booking_id \notin {bs[i].id : i \in DOMAIN bs}
    THEN [customers |-> cs, bookings |-> bs,
          response |-> HTTPException("decline", request, 404, "Booking not found")]
    ELSE LET i == CHOOSE j \in DOMAIN bs : bs[j].id = booking_id
             after == decided(bs[i], "declined", payload, now)
         IN  [customers |-> cs,
              bookings |-> [bs EXCEPT ![i] = after],
              response |-> [op |-> "decline", request |-> request,
                            status_code |-> 200,
                            body |-> booking_read(cs, after)]]

decline_booking(cs, bs, booking_id, payload, now) ==
    LET request == [booking_id |-> booking_id, payload |-> payload] IN
    IF booking_id \notin {bs[i].id : i \in DOMAIN bs}
    THEN [customers |-> cs, bookings |-> bs,
          response |-> HTTPException("decline", request, 404, "Booking not found")]
    ELSE LET i == CHOOSE j \in DOMAIN bs : bs[j].id = booking_id
             booking == bs[i]
         IN  IF booking.status # "pending"
             THEN [customers |-> cs, bookings |-> bs,
                   response |-> HTTPException("decline", request, 409,
                                              "Only pending bookings can be declined")]
             ELSE LET after == decided(booking, "declined", payload, now)
                  IN  [customers |-> cs,
                       bookings |-> [bs EXCEPT ![i] = after],
                       response |-> [op |-> "decline", request |-> request,
                                     status_code |-> 200,
                                     body |-> booking_read(cs, after)]]

----------------------------------------------------------------------------
(* The calendar builder *)

\* The grid of Calendar(firstweekday=6): its weeks start on Sunday
monthdatescalendar_sunday(year, month) ==
    LET day1        == weekday(date(year, month, 1))
        ndays       == monthrange(year, month)
        days_before == (day1 - 6) % 7
        days_after  == (6 - day1 - ndays) % 7
        first       == date(year, month, 1) - days_before
        count       == days_before + ndays + days_after
    IN  [w \in 1..(count \div 7) |-> [d \in 1..7 |-> first + 7 * (w - 1) + (d - 1)]]

\* Calendar(firstweekday=0).monthdatescalendar(year, month): the weeks, each
\* of seven dates, from the Monday on or before the 1st to the Sunday on or
\* after the last day of the month
monthdatescalendar(year, month) ==
    LET day1        == weekday(date(year, month, 1))
        ndays       == monthrange(year, month)
        days_before == (day1 - 0) % 7
        days_after  == (0 - day1 - ndays) % 7
        first       == date(year, month, 1) - days_before
        count       == days_before + ndays + days_after
    IN  [w \in 1..(count \div 7) |-> [d \in 1..7 |-> first + 7 * (w - 1) + (d - 1)]]

\* date.strftime(fmt): the format and the fields of the date it prints
strftime(day, fmt) == [fmt |-> fmt, date |-> ymd(day), weekday |-> weekday(day)]

\* date.isoformat(): year, month and day
isoformat(day) == ymd(day)

\* sorted(bookings, key=lambda b: (b.start_at, b.id)): a stable insertion sort
key_le(a, b) == a.start_at < b.start_at \/ (a.start_at = b.start_at /\ a.id <= b.id)

RECURSIVE insert_sorted(_, _)
insert_sorted(sorted_seq, b) ==
    IF sorted_seq = <<>> THEN <<b>>
    ELSE IF key_le(sorted_seq[Len(sorted_seq)], b) THEN Append(sorted_seq, b)
    ELSE Append(insert_sorted(SubSeq(sorted_seq, 1, Len(sorted_seq) - 1), b),
                sorted_seq[Len(sorted_seq)])

\* The list as it is, not sorted
sorted_unsorted(seq) == seq

RECURSIVE sorted(_)
sorted(seq) ==
    IF seq = <<>> THEN <<>>
    ELSE insert_sorted(sorted(SubSeq(seq, 1, Len(seq) - 1)), seq[Len(seq)])

\* sum(1 for booking in day_bookings if booking.status == status)
count_status(day_bookings, status) ==
    Cardinality({i \in DOMAIN day_bookings : day_bookings[i].status = status})

max(a, b) == IF a >= b THEN a ELSE b
min(a, b) == IF a <= b THEN a ELSE b

format_window_label(booking) ==
    IF booking.start_at = booking.end_at
    THEN <<strftime(booking.start_at, "%a, %d %b %Y")>>
    ELSE <<strftime(booking.start_at, "%d %b %Y"), strftime(booking.end_at, "%d %b %Y")>>

\* A fetched booking carries its joined customer
booking_summary(b) ==
    [id |-> b.booking.id,
     customerName |-> b.customer.full_name,
     status |-> b.booking.status,
     windowLabel |-> format_window_label(b.booking),
     requestedBy |-> b.booking.requested_by,
     notes |-> b.booking.notes]

\* The rows _fetch_bookings_for_range selects, each with its customer
fetch_bookings_for_range(cs, bs, resource_id, start_at, end_at) ==
    {booking_read(cs, bs[i]) : i \in {j \in DOMAIN bs :
        /\ bs[j].resource_id = resource_id
        /\ bs[j].end_at >= start_at
        /\ bs[j].start_at <= end_at}}

\* The orders in which the store may return the selected rows (the query has
\* no ORDER BY)
fetch_orders(rows) ==
    {order \in [1..Cardinality(rows) -> rows] :
        \A i, j \in DOMAIN order : i # j => order[i] # order[j]}

\* The keys by which the sorts below order fetched rows
by_key(fetched) == [i \in DOMAIN fetched |-> fetched[i].booking]

\* sorted(...) of fetched rows by (start_at, id)
sorted_rows(fetched) ==
    LET keys == sorted(by_key(fetched))
    IN  [i \in DOMAIN keys |->
            CHOOSE r \in {fetched[j] : j \in DOMAIN fetched} : r.booking = keys[i]]

\* bookings_by_day.get(day, []): the fetched bookings whose span, clipped to
\* the grid, holds the day, in fetch order
bookings_by_day(fetched, grid_start, grid_end, day) ==
    LET touches(b) ==
            LET span == daterange(max(b.booking.start_at, grid_start),
                                  min(b.booking.end_at, grid_end))
            IN  \E k \in DOMAIN span : span[k] = day
    IN  SelectSeq(fetched, touches)

\* by_key of the bookings of a day
day_rows(day_bookings) == by_key(day_bookings)

\* max(0, CAPACITY_PER_DAY - approved_count)
remaining_slots(approved_count) == max(0, CAPACITY_PER_DAY - approved_count)

build_day_detail(day, day_bookings) ==
    LET approved_count  == count_status(day_rows(day_bookings), "approved")
        pending_count   == count_status(day_rows(day_bookings), "pending")
        summary ==
            IF approved_count >= CAPACITY_PER_DAY
            THEN "All slots are filled. Decline or reschedule requests to reopen capacity."
            ELSE IF day_bookings # <<>>
            THEN "Review guest details, confirm approvals, or release slots as needed."
            ELSE "Wide open day ready for a new booking."
        ordered == sorted_rows(day_bookings)
    IN  [iso |-> isoformat(day),
         dateLabel |-> strftime(day, "%A, %d %B %Y"),
         summary |-> summary,
         confirmedCount |-> approved_count,
         pendingCount |-> pending_count,
         remainingSlots |-> remaining_slots(approved_count),
         bookings |-> [i \in DOMAIN ordered |-> booking_summary(ordered[i])]]

\* Every day of the grid taken for a day of the anchor month
is_current_month_grid(day_value, anchor_month) == TRUE

\* day_value.month == anchor.month
is_current_month(day_value, anchor_month) == ymd(day_value).month = anchor_month

\* schemas.CalendarDay for one day of the grid
calendar_day(day_value, day_bookings, anchor_month, today) ==
    LET approved_count == count_status(day_rows(day_bookings), "approved")
        pending_count  == count_status(day_rows(day_bookings), "pending")
        ordered        == sorted_rows(day_bookings)
        fields         == ymd(day_value)
    IN  [iso |-> fields,
         dayLabel |-> fields.day,
         isCurrentMonth |-> is_current_month(day_value, anchor_month),
         isToday |-> day_value = today,
         isFull |-> approved_count >= CAPACITY_PER_DAY,
         isUnavailable |-> FALSE,
         pendingCount |-> pending_count,
         remainingSlots |-> remaining_slots(approved_count),
         bookings |-> [i \in DOMAIN ordered |-> booking_summary(ordered[i])]]

RECURSIVE sum_seq(_)
sum_seq(seq) == IF seq = <<>> THEN 0 ELSE seq[1] + sum_seq(Tail(seq))

\* The first day of days that no booking of any status covers
first_available_unbooked(fetched, grid_start, grid_end, days) ==
    LET open == {k \in DOMAIN days :
                    Len(bookings_by_day(fetched, grid_start, grid_end, days[k]))
                        < CAPACITY_PER_DAY}
    IN  IF open = {} THEN {} ELSE {days[CHOOSE k \in open : \A l \in open : k <= l]}

\* The first day of days whose approved count is below capacity, as a set of
\* at most one day
first_available(fetched, grid_start, grid_end, days) ==
    LET open == {k \in DOMAIN days :
                    count_status(day_rows(bookings_by_day(fetched, grid_start, grid_end, days[k])),
                                 "approved") < CAPACITY_PER_DAY}
    IN  IF open = {} THEN {} ELSE {days[CHOOSE k \in open : \A l \in open : k <= l]}

\* _build_calendar; selected_date is a set of at most one date (empty: None)
build_calendar(anchor, resource_id, fetched, selected_date, today) ==
    LET a           == ymd(anchor)
        weeks_dates == monthdatescalendar(a.year, a.month)
        grid_start  == weeks_dates[1][1]
        grid_end    == weeks_dates[Len(weeks_dates)][7]
        by_day(day) == bookings_by_day(fetched, grid_start, grid_end, day)
        month_start == anchor
        month_end   == date(a.year, a.month, monthrange(a.year, a.month))
        in_month(b) == b.booking.start_at <= month_end /\ b.booking.end_at >= month_start
        total_bookings ==
            Cardinality({fetched[i].booking.id : i \in {j \in DOMAIN fetched :
                /\ fetched[j].booking.status \in {"pending", "approved"}
                /\ in_month(fetched[j])}})
        total_pending ==
            Cardinality({fetched[i].booking.id : i \in {j \in DOMAIN fetched :
                /\ fetched[j].booking.status = "pending"
                /\ in_month(fetched[j])}})
        t == ymd(today)
        default_selected ==
            IF selected_date # {} THEN CHOOSE d \in selected_date : TRUE
            ELSE IF a.year = t.year /\ a.month = t.month THEN today ELSE anchor
        weeks_payload ==
            [w \in DOMAIN weeks_dates |->
                [d \in 1..7 |-> calendar_day(weeks_dates[w][d], by_day(weeks_dates[w][d]),
                                             a.month, today)]]
        total_remaining ==
            sum_seq([w \in DOMAIN weeks_dates |->
                sum_seq([d \in 1..7 |->
                    IF is_current_month(weeks_dates[w][d], a.month)
                    THEN remaining_slots(count_status(day_rows(by_day(weeks_dates[w][d])),
                                                      "approved"))
                    ELSE 0])])
        next_available ==
            first_available(fetched, grid_start, grid_end,
                            daterange(max(today, grid_start), grid_end))
        selected ==
            IF default_selected < grid_start \/ default_selected > grid_end
            THEN anchor ELSE default_selected
        pending == sorted_rows(SelectSeq(fetched, LAMBDA b : b.booking.status = "pending"))
    IN  [resource |-> resource_id,
         calendar |->
            [monthLabel |-> strftime(anchor, "%B %Y"),
             selectedIso |-> isoformat(selected),
             totalBookings |-> total_bookings,
             pendingCount |-> total_pending,
             remainingSlots |-> total_remaining,
             nextAvailableLabel |-> {strftime(d, "%a, %d %b %Y") : d \in next_available},
             weeks |-> weeks_payload],
         selectedDay |-> build_day_detail(selected, by_day(selected)),
         pendingRequests |->
            [i \in DOMAIN pending |->
                [id |-> pending[i].booking.id,
                 customerName |-> pending[i].customer.full_name,
                 date |-> isoformat(pending[i].booking.start_at),
                 dateLabel |-> strftime(pending[i].booking.start_at, "%a, %d %b"),
                 windowLabel |-> format_window_label(pending[i].booking),
                 requestedBy |-> pending[i].booking.requested_by,
                 notes |-> pending[i].booking.notes]]]

\* _month_anchor: the month parameter is the sequence of the integers that
\* month.split("-") parses to, empty when the parameter is absent; the result
\* is a set of at most one date, empty when date(...) or the unpacking raises
\* ValueError
month_anchor(month, today) ==
    IF month = <<>> THEN {date(ymd(today).year, ymd(today).month, 1)}
    ELSE IF Len(month) = 2 /\ month[1] \in 1..9999 /\ month[2] \in 1..12
    THEN {date(month[1], month[2], 1)}
    ELSE {}

\* The grid bounds get_calendar fetches for
grid_bounds(anchor) ==
    LET weeks == monthdatescalendar(ymd(anchor).year, ymd(anchor).month)
    IN  [grid_start |-> weeks[1][1], grid_end |-> weeks[Len(weeks)][7]]

\* get_calendar, given the order in which the store returns the rows of
\* the fetch; it reads the store and leaves it as it is
get_calendar(query, anchor, fetched) ==
    [op |-> "calendar", request |-> query, status_code |-> 200,
     body |-> build_calendar(anchor, query.resource_id, fetched,
                             query.selected_date, query.today)]

----------------------------------------------------------------------------
(* Requests *)

Resources == {DEFAULT_RESOURCE_ID, "birch-cabin"}

\* 2025-07-06 is the Sunday that ends the grid of June 2025: the day after
\* it is outside that grid, and both are days of July 2025
FirstDay == date(2025, 7, 6)
Days == FirstDay .. (FirstDay + NumDays - 1)

Ann == [email |-> <<97>>, full_name |-> "Ann"]

\* CustomerCreate payloads: "A", "a" and "b" as addresses, two names
Emails == {<<65>>, <<97>>, <<98>>}
CustomerPayloads == {[email |-> e, full_name |-> n] : e \in Emails, n \in {"Ann", "Bea"}}

\* An instant of datetime.now(timezone.utc)
Times == {"t1"}

BookingDecision(actor, note) == [actor |-> actor, note |-> note]

BookingCreate(customer, resource_id, start_at, end_at, notes) ==
    [customer |-> customer, start_at |-> start_at, end_at |-> end_at,
     requested_by |-> "Alice", notes |-> notes, resource_id |-> resource_id,
     amount |-> None]

CalendarQuery(month, selected_date, resource_id, today) ==
    [month |-> month, selected_date |-> selected_date, resource_id |-> resource_id,
     today |-> today]

\* Path ids: those of the stored bookings and one that names none
BookingIds == 1 .. (MaxBookings + 1)

\* Spec, the whole API.  The ranges: the last day of June to the end of its
\* grid, a range the grid of June clips, a day outside the grid of June, and
\* a range that ends before it starts.
Ranges ==
    {<<date(2025, 6, 30), FirstDay>>, <<FirstDay, FirstDay + 1>>,
     <<FirstDay + 1, FirstDay + 1>>, <<FirstDay + 1, FirstDay>>}

CreatePayloads ==
    {BookingCreate(Ann, DEFAULT_RESOURCE_ID, r[1], r[2], <<>>) : r \in Ranges}

Decisions == {BookingDecision("Owner", <<"ok">>)}

CalendarQueries ==
    {CalendarQuery(m, {}, r, FirstDay) : m \in {<<2025, 6>>, <<2025, 7>>}, r \in Resources}

\* SpecAvailability, the whole API asked on three days: the calendar of June
\* on the last day of its grid and on the day after, and the calendar of
\* July a month before its grid starts
AvailabilityQueries ==
    {CalendarQuery(<<2025, 6>>, {}, DEFAULT_RESOURCE_ID, FirstDay),
     CalendarQuery(<<2025, 6>>, {}, DEFAULT_RESOURCE_ID, FirstDay + 1),
     CalendarQuery(<<2025, 7>>, {}, DEFAULT_RESOURCE_ID, date(2025, 6, 1))}

\* SpecLifecycle, the three mutations: every range over Days, two resources
LifecyclePayloads ==
    {BookingCreate(Ann, r, s, e, <<>>) : r \in Resources, s \in Days, e \in Days}

\* SpecCustomers, the three mutations: every customer payload, with and
\* without notes, on one day of one resource
CustomersPayloads ==
    {BookingCreate(c, DEFAULT_RESOURCE_ID, FirstDay, FirstDay, n) :
        c \in CustomerPayloads, n \in {<<>>, <<"late arrival">>}}

CustomersDecisions == {BookingDecision("Owner", n) : n \in {<<>>, <<"ok">>}}

\* SpecGrid, the calendar of an empty store: every month of NumYears years,
\* an absent month, month numbers 0 and 13, a month of three parts; the
\* selected date absent, in the grid of July 2025, or far from it
GridYears == 2020 .. (2020 + NumYears - 1)

GridMonths ==
    {<<y, m>> : y \in GridYears, m \in 0..13}
        \cup {<<>>, <<2025, 7, 1>>}

GridQueries ==
    {CalendarQuery(m, {}, DEFAULT_RESOURCE_ID, FirstDay) : m \in GridMonths}
        \cup {CalendarQuery(<<2025, 7>>, {d}, DEFAULT_RESOURCE_ID, FirstDay) :
                d \in {FirstDay + 2, date(2025, 12, 25)}}

\* The requests in flight at once: each has its own AsyncSession (get_db)
Sessions == 1 .. MaxSessions

\* A session no request has been dispatched to
idle ==
    [op |-> "none", pc |-> "idle", request |-> None, booking |-> {},
     status_code |-> 0, body |-> {}]

----------------------------------------------------------------------------
(* The state machine *)

Init ==
    /\ customers = <<>>
    /\ bookings = <<>>
    /\ response = [op |-> "none", request |-> None, status_code |-> 0,
                   body |-> [detail |-> None]]
    /\ sessions = [r \in Sessions |-> idle]

CreateBooking(payload) ==
    LET result == create_booking(customers, bookings, payload) IN
    /\ Len(bookings) < MaxBookings
    /\ customers' = result.customers
    /\ bookings' = result.bookings
    /\ response' = result.response
    /\ UNCHANGED sessions

ApproveBooking(booking_id, payload, now) ==
    LET result == approve_booking(customers, bookings, booking_id, payload, now) IN
    /\ customers' = result.customers
    /\ bookings' = result.bookings
    /\ response' = result.response
    /\ UNCHANGED sessions

DeclineBooking(booking_id, payload, now) ==
    LET result == decline_booking(customers, bookings, booking_id, payload, now) IN
    /\ customers' = result.customers
    /\ bookings' = result.bookings
    /\ response' = result.response
    /\ UNCHANGED sessions

GetCalendar(query) ==
    LET anchors == month_anchor(query.month, query.today) IN
    /\ UNCHANGED <<customers, bookings, sessions>>
    /\ IF anchors = {}
       THEN response' = HTTPException("calendar", query, 422, "Invalid month format")
       ELSE LET anchor == CHOOSE a \in anchors : TRUE
                grid   == grid_bounds(anchor)
                rows   == fetch_bookings_for_range(customers, bookings, query.resource_id,
                                                   grid.grid_start, grid.grid_end)
            IN  \E fetched \in fetch_orders(rows) :
                    response' = get_calendar(query, anchor, fetched)

Next ==
    \/ \E payload \in CreatePayloads : CreateBooking(payload)
    \/ \E id \in BookingIds, payload \in Decisions, now \in Times :
          ApproveBooking(id, payload, now)
    \/ \E id \in BookingIds, payload \in Decisions, now \in Times :
          DeclineBooking(id, payload, now)
    \/ \E query \in CalendarQueries : GetCalendar(query)

Spec == Init /\ [][Next]_vars

NextLifecycle ==
    \/ \E payload \in LifecyclePayloads : CreateBooking(payload)
    \/ \E id \in BookingIds, payload \in Decisions, now \in Times :
          ApproveBooking(id, payload, now)
    \/ \E id \in BookingIds, payload \in Decisions, now \in Times :
          DeclineBooking(id, payload, now)

SpecLifecycle == Init /\ [][NextLifecycle]_vars

NextCustomers ==
    \/ \E payload \in CustomersPayloads : CreateBooking(payload)
    \/ \E id \in BookingIds, payload \in CustomersDecisions, now \in Times :
          ApproveBooking(id, payload, now)
    \/ \E id \in BookingIds, payload \in CustomersDecisions, now \in Times :
          DeclineBooking(id, payload, now)

SpecCustomers == Init /\ [][NextCustomers]_vars

NextGrid == \E query \in GridQueries : GetCalendar(query)

SpecGrid == Init /\ [][NextGrid]_vars

NextAvailability ==
    \/ \E payload \in CreatePayloads : CreateBooking(payload)
    \/ \E id \in BookingIds, payload \in Decisions, now \in Times :
          ApproveBooking(id, payload, now)
    \/ \E id \in BookingIds, payload \in Decisions, now \in Times :
          DeclineBooking(id, payload, now)
    \/ \E query \in AvailabilityQueries : GetCalendar(query)

SpecAvailability == Init /\ [][NextAvailability]_vars

----------------------------------------------------------------------------
(* Decisions in flight at once.  Each request runs in an AsyncSession of    *)
(* its own; a handler gives way to the other requests at each await         *)
(* (_get_booking, _ensure_no_conflict, commit, refresh).  No isolation      *)
(* level is configured and no row is locked, so each statement reads what   *)
(* is committed when it runs, and a commit writes the columns the handler   *)
(* changed over whatever the row then holds.                                *)

\* The decision endpoints
Operations == {"approve", "decline"}

\* SpecSessions: every range over Days, one resource
SessionsPayloads ==
    {BookingCreate(Ann, DEFAULT_RESOURCE_ID, r[1], r[2], <<>>) :
        r \in {x \in Days \X Days : x[1] <= x[2]}}

\* The session after its handler raised HTTPException
raised(session, status_code, detail) ==
    [session EXCEPT !.pc = "done", !.status_code = status_code,
                    !.body = {[detail |-> detail]}]

\* The UPDATE a commit flushes: the columns whose value the handler changed
\* since it loaded the row, written over the row as it is now
flush(row, loaded, after) ==
    [c \in DOMAIN row |-> IF after[c] # loaded[c] THEN after[c] ELSE row[c]]

\* The position of the row with the id in the bookings table
row_of(bs, booking_id) == CHOOSE i \in DOMAIN bs : bs[i].id = booking_id

\* The router hands a decision request to its handler with a new session
Dispatch(r, op, booking_id, payload) ==
    /\ sessions[r].pc = "idle"
    /\ sessions' = [sessions EXCEPT ![r] =
            [idle EXCEPT !.op = op, !.pc = "get_booking",
                         !.request = [booking_id |-> booking_id, payload |-> payload]]]
    /\ UNCHANGED <<customers, bookings, response>>

\* await _get_booking(db, booking_id), then the check that it is pending
GetBooking(r) ==
    LET session == sessions[r]
        found   == {i \in DOMAIN bookings : bookings[i].id = session.request.booking_id}
    IN  /\ session.pc = "get_booking"
        /\ sessions' = [sessions EXCEPT ![r] =
             IF found = {}
             THEN raised(session, 404, "Booking not found")
             ELSE LET booking == bookings[row_of(bookings, session.request.booking_id)]
                  IN  IF booking.status # "pending"
                      THEN raised(session, 409,
                                  IF session.op = "approve"
                                  THEN "Only pending bookings can be approved"
                                  ELSE "Only pending bookings can be declined")
                      ELSE [session EXCEPT !.booking = {booking},
                               !.pc = IF session.op = "approve"
                                      THEN "ensure_no_conflict" ELSE "commit"]]
        /\ UNCHANGED <<customers, bookings, response>>

\* await _ensure_no_conflict(...) of approve_booking, for the row it loaded
EnsureNoConflict(r) ==
    LET session == sessions[r]
        booking == CHOOSE b \in session.booking : TRUE
    IN  /\ session.pc = "ensure_no_conflict"
        /\ sessions' = [sessions EXCEPT ![r] =
             IF ~ ensure_no_conflict(bookings, booking.resource_id, booking.start_at,
                                     booking.end_at, {booking.id})
             THEN raised(session, 409, "Booking overlaps an approved reservation")
             ELSE [session EXCEPT !.pc = "commit"]]
        /\ UNCHANGED <<customers, bookings, response>>

\* The assignments to the loaded row, db.add(booking) and await db.commit()
Commit(r, now) ==
    LET session == sessions[r]
        booking == CHOOSE b \in session.booking : TRUE
        after   == decided(booking,
                           IF session.op = "approve" THEN "approved" ELSE "declined",
                           session.request.payload, now)
        i       == row_of(bookings, booking.id)
    IN  /\ session.pc = "commit"
        /\ bookings' = [bookings EXCEPT ![i] = flush(bookings[i], booking, after)]
        /\ sessions' = [sessions EXCEPT ![r] =
                            [session EXCEPT !.booking = {after}, !.pc = "refresh"]]
        /\ UNCHANGED <<customers, response>>

\* await db.refresh(booking) and the response _booking_read(booking)
Refresh(r) ==
    LET session == sessions[r]
        booking == bookings[row_of(bookings, session.request.booking_id)]
    IN  /\ session.pc = "refresh"
        /\ sessions' = [sessions EXCEPT ![r] =
                            [session EXCEPT !.booking = {booking}, !.pc = "done",
                                            !.status_code = 200,
                                            !.body = {booking_read(customers, booking)}]]
        /\ UNCHANGED <<customers, bookings, response>>

NextSessions ==
    \/ \E payload \in SessionsPayloads : CreateBooking(payload)
    \/ \E r \in Sessions, op \in Operations, id \in BookingIds, payload \in Decisions :
          Dispatch(r, op, id, payload)
    \/ \E r \in Sessions : GetBooking(r)
    \/ \E r \in Sessions : EnsureNoConflict(r)
    \/ \E r \in Sessions, now \in Times : Commit(r, now)
    \/ \E r \in Sessions : Refresh(r)

SpecSessions == Init /\ [][NextSessions]_vars

----------------------------------------------------------------------------
(* Properties *)

\* The stored bookings as a set
Stored == {bookings[i] : i \in DOMAIN bookings}

\* The inclusive intersection of two date ranges
Intersects(s1, e1, s2, e2) == e1 >= s2 /\ s1 <= e2

\* Some approved booking of the resource intersects [start_at, end_at]
OverlapsApproved(resource_id, start_at, end_at) ==
    \E a \in Stored :
        /\ a.status = "approved"
        /\ a.resource_id = resource_id
        /\ Intersects(a.start_at, a.end_at, start_at, end_at)

\* C1: in every reachable state, for every resource and every day, at most
\* one approved booking of the resource covers the day.
C1_OneApprovedPerDay ==
    \A r \in Resources : \A d \in Days :
        Cardinality({b \in Stored : /\ b.status = "approved"
                                    /\ b.resource_id = r
                                    /\ b.start_at <= d /\ d <= b.end_at}) <= 1

\* An approval has just succeeded while another booking of the same resource
\* overlaps the approved one.
C1_Witness ==
    /\ response.op = "approve" /\ response.status_code = 200
    /\ \E a \in Stored : \E b \in Stored :
        /\ a.id = response.request.booking_id /\ b.id # a.id
        /\ a.status = "approved"
        /\ b.resource_id = a.resource_id
        /\ Intersects(a.start_at, a.end_at, b.start_at, b.end_at)

\* C2 as stated: a create whose range overlaps an approved booking of the
\* same resource succeeds and persists a new pending booking.
C2_CreateOverApprovedSucceeds ==
    (/\ response.op = "create"
     /\ response.request.start_at <= response.request.end_at
     /\ OverlapsApproved(response.request.resource_id, response.request.start_at,
                         response.request.end_at))
        => /\ response.status_code = 201
           /\ bookings[Len(bookings)].status = "pending"

\* C2 as amended: a create whose range overlaps an approved booking of the
\* same resource is rejected with 409; a create with start <= end succeeds
\* exactly when no approved booking of the same resource overlaps its range,
\* whatever pending or declined bookings overlap it, and then the booking it
\* persists is the last one, pending, with the requested resource and dates.
C2_CreateBlockedOnlyByApproved ==
    response.op = "create" =>
        LET req     == response.request
            valid   == req.start_at <= req.end_at
            blocked == OverlapsApproved(req.resource_id, req.start_at, req.end_at)
        IN  /\ (valid /\ blocked) => response.status_code = 409
            /\ response.status_code = 201 <=> (valid /\ ~ blocked)
            /\ response.status_code = 201 =>
                 LET b == bookings[Len(bookings)]
                 IN  /\ b.status = "pending"
                     /\ b.id = response.body.booking.id
                     /\ b.resource_id = req.resource_id
                     /\ b.start_at = req.start_at /\ b.end_at = req.end_at

\* A create has just been rejected with 409 because an approved booking of
\* its resource overlaps its range.
C2_Witness ==
    /\ response.op = "create" /\ response.status_code = 409
    /\ OverlapsApproved(response.request.resource_id, response.request.start_at,
                        response.request.end_at)

\* C3: a create with start <= end whose range intersects an approved booking
\* of the same resource is answered 409 and changes nothing: no booking is
\* added, no customer is added, no customer's name is overwritten.
C3_ConflictingCreateChangesNothing ==
    [][(/\ response'.op = "create"
        /\ response'.request.start_at <= response'.request.end_at
        /\ OverlapsApproved(response'.request.resource_id, response'.request.start_at,
                            response'.request.end_at))
          => /\ response'.status_code = 409
             /\ bookings' = bookings
             /\ customers' = customers]_vars

\* A create has just been rejected with 409 for a customer who is stored
\* under another name than the one submitted.
C3_Witness ==
    /\ response.op = "create" /\ response.status_code = 409
    /\ \E i \in DOMAIN customers :
        /\ customers[i].email = <<97>>
        /\ response.request.customer.email \in {<<65>>, <<97>>}
        /\ customers[i].full_name # response.request.customer.full_name

\* The booking a decision request names, pending, overlaps another booking of
\* its resource that is approved
PendingUnderApproved(booking_id) ==
    \E b \in Stored : \E a \in Stored :
        /\ b.id = booking_id /\ b.status = "pending"
        /\ a.id # b.id /\ a.status = "approved"
        /\ a.resource_id = b.resource_id
        /\ Intersects(a.start_at, a.end_at, b.start_at, b.end_at)

\* C4: approving a pending booking that overlaps another, approved booking of
\* the same resource is answered 409 and leaves every booking as it was.
C4_ConflictingApproveRejected ==
    [][(response'.op = "approve" /\ PendingUnderApproved(response'.request.booking_id))
          => /\ response'.status_code = 409
             /\ bookings' = bookings
             /\ customers' = customers]_vars

\* An approval has just been rejected with 409 and the booking it names is
\* still pending, with no approver and no approval time.
C4_Witness ==
    /\ response.op = "approve" /\ response.status_code = 409
    /\ PendingUnderApproved(response.request.booking_id)
    /\ \E b \in Stored :
        /\ b.id = response.request.booking_id
        /\ b.approved_by = None /\ b.approved_at = None /\ b.notes = <<>>

\* C5: an approve or a decline of a stored booking that is not pending is
\* answered 409 and leaves every booking as it was.
C5_DecisionOnDecidedRejected ==
    [][(/\ response'.op \in {"approve", "decline"}
        /\ \E b \in Stored : b.id = response'.request.booking_id /\ b.status # "pending")
          => /\ response'.status_code = 409
             /\ bookings' = bookings
             /\ customers' = customers]_vars

\* A declined booking has just been declined again, and refused.
C5_Witness ==
    /\ response.op = "decline" /\ response.status_code = 409
    /\ \E b \in Stored : b.id = response.request.booking_id /\ b.status = "declined"

\* C6: a create with start > end is answered 422 and changes nothing, and
\* every stored booking has start <= end.
C6_DatesInOrder ==
    /\ [](\A b \in Stored : b.start_at <= b.end_at)
    /\ [][(response'.op = "create" /\ response'.request.start_at > response'.request.end_at)
            => /\ response'.status_code = 422
               /\ bookings' = bookings
               /\ customers' = customers]_vars

\* A create with its dates out of order has just been refused by a store
\* that holds a booking.
C6_Witness ==
    /\ response.op = "create" /\ response.status_code = 422
    /\ response.request.start_at > response.request.end_at
    /\ bookings # <<>>

\* C7: a step never removes or renumbers a booking, a new booking is pending,
\* a stored booking keeps its status or goes from pending to approved or to
\* declined, and no booking is ever cancelled.
C7_StatusLifecycle ==
    [][/\ Len(bookings') >= Len(bookings)
       /\ \A i \in DOMAIN bookings' : bookings'[i].status # "cancelled"
       /\ \A i \in DOMAIN bookings' :
            IF i \in DOMAIN bookings
            THEN /\ bookings'[i].id = bookings[i].id
                 /\ \/ bookings'[i].status = bookings[i].status
                    \/ /\ bookings[i].status = "pending"
                       /\ bookings'[i].status \in {"approved", "declined"}
            ELSE bookings'[i].status = "pending"]_vars

\* One stored booking is approved and another is declined.
C7_Witness ==
    \E a \in Stored : \E d \in Stored : a.status = "approved" /\ d.status = "declined"

\* The lower-cased form of an address
Folded(s) == [i \in DOMAIN s |-> IF s[i] \in 65..90 THEN s[i] + 32 ELSE s[i]]

\* C8: no two customers share a lower-cased address; a successful create
\* whose address matches a stored customer's, whatever the case, adds no
\* customer and books for that customer; after it that customer's name is
\* the one submitted; and nothing else changes a customer.
C8_CustomerByFoldedEmail ==
    /\ [](\A i \in DOMAIN customers : \A j \in DOMAIN customers :
            i # j => Folded(customers[i].email) # Folded(customers[j].email))
    /\ [][IF response'.op = "create" /\ response'.status_code = 201
          THEN LET submitted == response'.request.customer
                   old == {i \in DOMAIN customers :
                             Folded(customers[i].email) = Folded(submitted.email)}
                   new == {i \in DOMAIN customers' :
                             Folded(customers'[i].email) = Folded(submitted.email)}
               IN  /\ Len(customers') = Len(customers) + (IF old = {} THEN 1 ELSE 0)
                   /\ old # {} => new = old
                   /\ \A i \in DOMAIN customers :
                        /\ customers'[i].id = customers[i].id
                        /\ customers'[i].email = customers[i].email
                        /\ i \notin old => customers'[i] = customers[i]
                   /\ Cardinality(new) = 1
                   /\ \A i \in new :
                        /\ customers'[i].full_name = submitted.full_name
                        /\ bookings'[Len(bookings')].customer_id = customers'[i].id
          ELSE customers' = customers]_vars

\* A create that spells "A" the address of the customer stored as "a" has
\* just succeeded, and the one customer now bears the name it submitted,
\* which is not the name the first booking was made under.
C8_Witness ==
    /\ response.op = "create" /\ response.status_code = 201
    /\ response.request.customer.email = <<65>>
    /\ Len(customers) = 1 /\ Len(bookings) = 2
    /\ customers[1].email = <<97>>
    /\ customers[1].full_name = "Bea"
    /\ response.request.customer.full_name = "Bea"

\* The cells of a grid, week after week, as dates
Cells(weeks) ==
    [k \in 1..(7 * Len(weeks)) |->
        LET iso == weeks[((k - 1) \div 7) + 1][((k - 1) % 7) + 1].iso
        IN  date(iso.year, iso.month, iso.day)]

\* The year and month a calendar request is anchored on
AnchorOf(query) ==
    IF query.month = <<>>
    THEN [year |-> ymd(query.today).year, month |-> ymd(query.today).month]
    ELSE [year |-> query.month[1], month |-> query.month[2]]

\* 2024-01-01 was a Monday
IsMonday(day) == (day - date(2024, 1, 1)) % 7 = 0

\* C9: the grid of a calendar response is one or more weeks of seven
\* consecutive dates; it starts on a Monday on or less than seven days before
\* the 1st of the anchor month, ends on a Sunday on or less than seven days
\* after its last day, and holds every day of the month exactly once.
C9_GridCoversMonth ==
    (response.op = "calendar" /\ response.status_code = 200) =>
        LET weeks == response.body.calendar.weeks
            cells == Cells(weeks)
            a     == AnchorOf(response.request)
            first == date(a.year, a.month, 1)
            last  == date(a.year, a.month, DaysInMonth(a.year, a.month))
        IN  /\ Len(weeks) >= 1
            /\ \A w \in DOMAIN weeks : Len(weeks[w]) = 7
            /\ \A k \in 1..(Len(cells) - 1) : cells[k + 1] = cells[k] + 1
            /\ IsMonday(cells[1])
            /\ cells[1] <= first /\ first - cells[1] < 7
            /\ IsMonday(cells[Len(cells)] + 1)
            /\ cells[Len(cells)] >= last /\ cells[Len(cells)] - last < 7
            /\ \A d \in 1..DaysInMonth(a.year, a.month) :
                 Cardinality({w \in DOMAIN weeks : \E k \in 1..7 :
                     weeks[w][k].iso = [year |-> a.year, month |-> a.month, day |-> d]}) = 1
            /\ \A d \in 1..DaysInMonth(a.year, a.month) : \A w \in DOMAIN weeks :
                 Cardinality({k \in 1..7 :
                     weeks[w][k].iso = [year |-> a.year, month |-> a.month, day |-> d]}) <= 1

\* A calendar of six weeks has been returned: it starts in the month before
\* the anchor month and ends in the month after it.
C9_Witness ==
    /\ response.op = "calendar" /\ response.status_code = 200
    /\ Len(response.body.calendar.weeks) = 6
    /\ response.body.calendar.weeks[1][1].iso.month # AnchorOf(response.request).month
    /\ response.body.calendar.weeks[6][7].iso.month # AnchorOf(response.request).month

\* The stored booking with the given id
StoredById(id) == CHOOSE b \in Stored : b.id = id

\* C10: in a calendar response every cell lists exactly the bookings of the
\* requested resource that meet the grid and cover the cell's day, ordered
\* by start date and then id; its pendingCount counts the pending ones; its
\* remainingSlots is max(0, 1 - approved count), never negative; and it is
\* full exactly when an approved booking covers the day.
C10_DayCells ==
    (response.op = "calendar" /\ response.status_code = 200) =>
        LET weeks   == response.body.calendar.weeks
            cells   == Cells(weeks)
            fetched == {b \in Stored :
                          /\ b.resource_id = response.request.resource_id
                          /\ Intersects(b.start_at, b.end_at, cells[1], cells[Len(cells)])}
        IN  \A w \in DOMAIN weeks : \A k \in 1..7 :
              LET cell     == weeks[w][k]
                  day      == cells[7 * (w - 1) + k]
                  on       == {b \in fetched : b.start_at <= day /\ day <= b.end_at}
                  approved == Cardinality({b \in on : b.status = "approved"})
                  listed   == cell.bookings
              IN  /\ Len(listed) = Cardinality(on)
                  /\ {listed[i].id : i \in DOMAIN listed} = {b.id : b \in on}
                  /\ \A i \in DOMAIN listed : listed[i].status = StoredById(listed[i].id).status
                  /\ \A i \in DOMAIN listed : \A j \in DOMAIN listed :
                       i < j =>
                         LET x == StoredById(listed[i].id)
                             y == StoredById(listed[j].id)
                         IN  x.start_at < y.start_at \/ (x.start_at = y.start_at /\ x.id < y.id)
                  /\ cell.pendingCount = Cardinality({b \in on : b.status = "pending"})
                  /\ cell.remainingSlots = (IF 1 - approved > 0 THEN 1 - approved ELSE 0)
                  /\ cell.remainingSlots >= 0
                  /\ cell.isFull <=> approved >= 1

\* A calendar response holds a full cell with no slot left that lists two
\* bookings, the one with the greater id first because it starts earlier.
C10_Witness ==
    /\ response.op = "calendar" /\ response.status_code = 200
    /\ \E w \in DOMAIN response.body.calendar.weeks : \E k \in 1..7 :
        LET cell == response.body.calendar.weeks[w][k]
        IN  /\ Len(cell.bookings) = 2
            /\ cell.bookings[1].id > cell.bookings[2].id
            /\ cell.isFull /\ cell.remainingSlots = 0
            /\ \E i \in 1..2 : cell.bookings[i].status = "approved"

\* The session's request was answered with the status code
Answered(r, op, status_code) ==
    /\ sessions[r].pc = "done"
    /\ sessions[r].op = op
    /\ sessions[r].status_code = status_code

\* C11: two approve requests for two different bookings of one resource
\* whose ranges intersect are never both answered with success, and no day
\* of a resource is ever covered by two approved bookings.
C11_ConcurrentApprovalsExclusive ==
    /\ \A r1 \in Sessions : \A r2 \in Sessions :
         (/\ r1 # r2
          /\ Answered(r1, "approve", 200)
          /\ Answered(r2, "approve", 200)
          /\ sessions[r1].request.booking_id # sessions[r2].request.booking_id)
         => LET a == StoredById(sessions[r1].request.booking_id)
                b == StoredById(sessions[r2].request.booking_id)
            IN  ~ (/\ a.resource_id = b.resource_id
                   /\ Intersects(a.start_at, a.end_at, b.start_at, b.end_at))
    /\ \A d \in Days :
         Cardinality({b \in Stored : /\ b.status = "approved"
                                     /\ b.resource_id = DEFAULT_RESOURCE_ID
                                     /\ b.start_at <= d /\ d <= b.end_at}) <= 1

\* C12: of two decision requests for the same booking at most one is
\* answered with success, and while a decision stands answered with success
\* the booking has the status that decision wrote.
C12_DecidedExactlyOnce ==
    /\ \A r1 \in Sessions : \A r2 \in Sessions :
         (/\ r1 # r2
          /\ sessions[r1].pc = "done" /\ sessions[r2].pc = "done"
          /\ sessions[r1].request.booking_id = sessions[r2].request.booking_id)
         => ~ (sessions[r1].status_code = 200 /\ sessions[r2].status_code = 200)
    /\ \A r \in Sessions :
         /\ Answered(r, "approve", 200)
              => StoredById(sessions[r].request.booking_id).status = "approved"
         /\ Answered(r, "decline", 200)
              => StoredById(sessions[r].request.booking_id).status = "declined"

\* The last day of the month of the year
LastOfMonth(year, month) ==
    IF month = 12 THEN date(year + 1, 1, 1) - 1 ELSE date(year, month + 1, 1) - 1

\* C13: in a calendar response totalBookings is the number of fetched
\* bookings, pending or approved, whose range intersects the anchor month;
\* pendingCount is the number of pending ones among them; remainingSlots is
\* the sum of the remainingSlots of the cells of the days of the anchor
\* month, which is the number of its days no approved booking covers.
C13_MonthAggregates ==
    (response.op = "calendar" /\ response.status_code = 200) =>
        LET month       == response.body.calendar
            cells       == Cells(month.weeks)
            a           == AnchorOf(response.request)
            month_start == date(a.year, a.month, 1)
            month_end   == LastOfMonth(a.year, a.month)
            fetched     == {b \in Stored :
                              /\ b.resource_id = response.request.resource_id
                              /\ Intersects(b.start_at, b.end_at, cells[1], cells[Len(cells)])}
            counted     == {b \in fetched :
                              /\ b.status \in {"pending", "approved"}
                              /\ Intersects(b.start_at, b.end_at, month_start, month_end)}
            open        == {d \in month_start..month_end :
                              ~ \E b \in fetched : /\ b.status = "approved"
                                                   /\ b.start_at <= d /\ d <= b.end_at}
            cell(k)     == month.weeks[((k - 1) \div 7) + 1][((k - 1) % 7) + 1]
            of_month    == {k \in DOMAIN cells : month_start <= cells[k] /\ cells[k] <= month_end}
        IN  /\ month.totalBookings = Cardinality(counted)
            /\ month.pendingCount = Cardinality({b \in counted : b.status = "pending"})
            /\ month.remainingSlots = Cardinality(open)
            /\ \A k \in of_month : cell(k).remainingSlots \in {0, 1}
            /\ month.remainingSlots =
                 Cardinality({k \in of_month : cell(k).remainingSlots = 1})

\* A calendar of June 2025 counts the pending booking that ends the month and
\* not the approved one that covers only a padding day of the grid: one
\* booking, pending, all thirty days open, and a full cell outside the month.
C13_Witness ==
    /\ response.op = "calendar" /\ response.status_code = 200
    /\ response.request.month = <<2025, 6>>
    /\ \E p \in Stored : \E q \in Stored :
         /\ p.resource_id = response.request.resource_id
         /\ q.resource_id = response.request.resource_id
         /\ p.status = "pending" /\ p.start_at = date(2025, 6, 30)
         /\ q.status = "approved" /\ q.start_at = FirstDay
    /\ response.body.calendar.totalBookings = 1
    /\ response.body.calendar.pendingCount = 1
    /\ response.body.calendar.remainingSlots = 30
    /\ \E w \in DOMAIN response.body.calendar.weeks : \E k \in 1..7 :
         LET cell == response.body.calendar.weeks[w][k]
         IN  cell.isFull /\ ~ cell.isCurrentMonth

\* C14: in a calendar response the next-available label is the date of the
\* earliest day from max(today, grid start) to the grid end that no approved
\* booking of the requested resource covers, and it is absent exactly when
\* there is no such day; bookings of other statuses play no part.
C14_NextAvailable ==
    (response.op = "calendar" /\ response.status_code = 200) =>
        LET cells      == Cells(response.body.calendar.weeks)
            grid_start == cells[1]
            grid_end   == cells[Len(cells)]
            today      == response.request.today
            from       == IF today > grid_start THEN today ELSE grid_start
            fetched    == {b \in Stored :
                             /\ b.resource_id = response.request.resource_id
                             /\ Intersects(b.start_at, b.end_at, grid_start, grid_end)}
            free       == {d \in from..grid_end :
                             ~ \E b \in fetched : /\ b.status = "approved"
                                                  /\ b.start_at <= d /\ d <= b.end_at}
            label      == response.body.calendar.nextAvailableLabel
        IN  /\ Cardinality(label) <= 1
            /\ label = {} <=> free = {}
            /\ today > grid_end => label = {}
            /\ \A l \in label :
                 LET day == date(l.date.year, l.date.month, l.date.day)
                 IN  /\ day \in free
                     /\ \A d \in free : day <= d
                     /\ l.fmt = "%a, %d %b %Y"
                     /\ l.weekday = (day - date(2024, 1, 1)) % 7

\* A calendar of July 2025 asked before its grid starts names 2025-07-07:
\* an approved booking covers the grid from its first day to the day before,
\* and the booking that covers the named day is pending.
C14_Witness ==
    /\ response.op = "calendar" /\ response.status_code = 200
    /\ response.request.month = <<2025, 7>>
    /\ response.request.today < date(2025, 6, 30)
    /\ \E l \in response.body.calendar.nextAvailableLabel :
         l.date = [year |-> 2025, month |-> 7, day |-> 7]
    /\ \E a \in Stored : \E p \in Stored :
         /\ a.status = "approved"
         /\ a.start_at = date(2025, 6, 30) /\ a.end_at = FirstDay
         /\ p.status = "pending"
         /\ p.start_at <= FirstDay + 1 /\ FirstDay + 1 <= p.end_at

====
